---------------------------- MODULE Spec2Model ----------------------------
(***************************************************************************)
(* pelicide: the worker bridge of src/pelicide/runner.py.                  *)
(*                                                                         *)
(* One Runner (the lifecycle manager) creates RunnerProcess sessions.  A   *)
(* session is an asyncio task (RunnerProcess.run) that launches the worker *)
(* subprocess, starts a writer task (command_writer) and reads reply lines *)
(* (result_reader).  Callers use Runner.start / stop / command.            *)
(*                                                                         *)
(* asyncio is single threaded and cooperative: a task runs from one        *)
(* suspension point to the next without interleaving.  The event loop      *)
(* keeps a FIFO of ready handles (task wake-ups and done callbacks); every *)
(* action below either runs the head of that FIFO, or is an event from     *)
(* outside it that appends to it: a caller's task being scheduled, the     *)
(* worker writing a line, the worker exiting, the child being reaped.      *)
(***************************************************************************)
EXTENDS Integers, Sequences, FiniteSets, TLC

\* ------------------------------------------------------------------ bounds
MaxCalls == 4        \* API calls (start / stop / command) made in one run
MaxSessions == 2     \* RunnerProcess sessions created in one run
MaxBuf == 1          \* reply lines buffered in the StreamReader, unread
MaxExtCalls == 3     \* API calls in one run when restart() or cancellation
                     \* is among the events
MaxCancels == 1      \* caller tasks cancelled in one run
MaxLiveCalls == 3    \* API calls in one run under the fair event loop
MaxLines == 3        \* command lines written to one worker script
NSites == 3          \* projects given to load_sites

Calls == 1..MaxCalls
Sessions == 1..MaxSessions
Sites == 1..NSites
Ids == 0..MaxCalls               \* correlation ids; 0 is the ready reply
None == 0                        \* Python's None for process / process_task

VARIABLES
    \* Runner
    process,        \* Runner.process: None or the session
    process_task,   \* Runner.process_task: None or the session's task
    settings,       \* Runner.settings: None or the ready payload
    nsess,          \* sessions created so far
    \* RunnerProcess.run, per session
    tstate,         \* position of the session task
    tcancel,        \* a cancel() is waiting to be delivered to the task
    tres,           \* how the task ended: "" | exception name
    twaiters,       \* calls awaiting process_task, in add-callback order
    pending,        \* the pending table: id -> future (0: settings, i: call i)
    queue,          \* asyncio.Queue(1): the queued items
    putters,        \* callers suspended in queue.put, FIFO
    wstate,         \* position of the command_writer task
    wcancel,        \* a cancel() is waiting to be delivered to the writer
    request_id,     \* command_writer's request_id
    stdin,          \* lines written to the worker, in order: the id, the
                    \* command name, and the call whose command it is
    \* the worker subprocess, per session
    proc,           \* "none" | "running" | "exited"
    reaped,         \* returncode known to the loop
    sigterm,        \* process.terminate() was called (line 70)
    killed,         \* the loop closed the transport of a cancelled launch
    eof,            \* end of stream fed to the StreamReader
    stdout,         \* lines fed to the StreamReader and not yet read
    answered,       \* ids the worker has emitted a reply for
    \* futures
    sfut,           \* settings future of each session
    cfut,           \* result future of each command call
    \* API calls, numbered in the order they are made
    ncalls,         \* calls made
    kind,           \* "start" | "stop" | "command"
    cname,          \* the command's name
    cpc,            \* where the call is suspended, or how it ended
    res,            \* what it returned or raised
    csess,          \* the session it works on
    atState,        \* the manager's state when the call was made
    atRestart,      \* a restart() was in flight when the call was made
    ccancel,        \* the caller's task was cancelled: "no", "sent" (passed on
                    \* to what it awaits) or "must" (CancelledError at wake-up)
    cwritten,       \* the call's command had been written to the worker when
                    \* its task was cancelled
    \* the event loop
    ready,
    \* sites.py: load_sites, the application's cleanup context
    spc,            \* "loading" | "failed" | "serving" | "teardown" | "closed"
                    \* | "aborted"
    cur,            \* the site load_sites is loading or cleaning up
    lpc,            \* the statement of load_site / cleanup_site that is next
    dir,            \* the site's scratch directory: "none" | "exists" | "removed"
    startTried,     \* runner.start() was called for the site
    stopTried,      \* runner.stop() was called for the site
    cleanTried,     \* temp_dir.cleanup() was called for the site
    registered,     \* the keys of the SiteDirectory
    unwinding,      \* the exception load_site is unwinding with
    raised,         \* what load_sites raised to the application
    logged,         \* logger.exception calls of cleanup_site: <<site, step>>
    \* pelican-runner.py: the worker script
    script_pc,      \* "init" | "failed" | "serving" | "exited" | "crashed"
    script_in,      \* the command lines written to its stdin, in order
    script_eof,     \* its stdin was closed by the other end
    script_read,    \* how many of the lines it has read
    script_out      \* the lines it has written to stdout, in order

runnerVars == <<process, process_task, settings, nsess>>
taskVars == <<tstate, tcancel, tres, twaiters>>
muxVars == <<pending, queue, putters, wstate, wcancel, request_id, stdin>>
workerVars == <<proc, reaped, sigterm, killed, eof, stdout, answered>>
futVars == <<sfut, cfut>>
callVars == <<ncalls, kind, cname, cpc, res, csess, atState, atRestart, ccancel, cwritten>>
siteVars == <<spc, cur, lpc, dir, startTried, stopTried, cleanTried, registered,
              unwinding, raised, logged>>
bridgeVars == <<runnerVars, taskVars, muxVars, workerVars, futVars, callVars, ready>>
scriptVars == <<script_pc, script_in, script_eof, script_read, script_out>>
vars == <<bridgeVars, siteVars, scriptVars>>

\* ----------------------------------------------------------------- helpers
Range(f) == {f[x] : x \in DOMAIN f}

\* A future: pending, or resolved with a result or an exception.
FPending == [st |-> "pending", id |-> 0, data |-> 0]
FNone == [st |-> "none", id |-> 0, data |-> 0]
FResult(k, d) == [st |-> "result", id |-> k, data |-> d]
FException(e, k, d) == [st |-> e, id |-> k, data |-> d]

\* What a call returned or raised.
RNone == [st |-> "none", data |-> 0]
RReturn(d) == [st |-> "return", data |-> d]
RRaise(e, d) == [st |-> e, data |-> d]

\* The pending table: a dict from correlation id to future, here a function
\* on all ids with NoEntry for the absent keys.
NoEntry == -1
EmptyTable == [k \in Ids |-> NoEntry]
InTable(p, id) == id \in Ids /\ p[id] # NoEntry

\* loop.call_soon: a task is woken at most once per suspension.
Schedule(rdy, h) == IF h \in Range(rdy) THEN rdy ELSE Append(rdy, h)

RECURSIVE ScheduleAll(_, _)
ScheduleAll(rdy, hs) ==
    IF hs = <<>> THEN rdy ELSE ScheduleAll(Schedule(rdy, Head(hs)), Tail(hs))

\* The call suspended on a future: the start() call of session s for its
\* settings future (ref 0), call i itself for its command future (ref i).
FutureWaiters(s, ref) ==
    IF ref = 0
    THEN {i \in Calls : kind[i] \in {"start", "restart"} /\ csess[i] = s
                         /\ cpc[i] = "startwait"}
    ELSE {i \in Calls : i = ref /\ cpc[i] = "fut"}

\* The manager's state as the spec names it: Stopped without a session,
\* Running once the session's ready reply has been received, Starting in
\* between.
MgrState ==
    IF process = None THEN "Stopped"
    ELSE IF sfut[process].st = "result" THEN "Running"
    ELSE "Starting"

Init ==
    /\ process = None /\ process_task = None /\ settings = None /\ nsess = 0
    /\ tstate = [s \in Sessions |-> "none"]
    /\ tcancel = [s \in Sessions |-> FALSE]
    /\ tres = [s \in Sessions |-> ""]
    /\ twaiters = [s \in Sessions |-> <<>>]
    /\ pending = [s \in Sessions |-> EmptyTable]
    /\ queue = [s \in Sessions |-> <<>>]
    /\ putters = [s \in Sessions |-> <<>>]
    /\ wstate = [s \in Sessions |-> "none"]
    /\ wcancel = [s \in Sessions |-> FALSE]
    /\ request_id = [s \in Sessions |-> 0]
    /\ stdin = [s \in Sessions |-> <<>>]
    /\ proc = [s \in Sessions |-> "none"]
    /\ reaped = [s \in Sessions |-> FALSE]
    /\ sigterm = [s \in Sessions |-> FALSE]
    /\ killed = [s \in Sessions |-> FALSE]
    /\ eof = [s \in Sessions |-> FALSE]
    /\ stdout = [s \in Sessions |-> <<>>]
    /\ answered = [s \in Sessions |-> {}]
    /\ sfut = [s \in Sessions |-> FNone]
    /\ cfut = [i \in Calls |-> FNone]
    /\ ncalls = 0
    /\ kind = [i \in Calls |-> "none"]
    /\ cname = [i \in Calls |-> ""]
    /\ cpc = [i \in Calls |-> "idle"]
    /\ res = [i \in Calls |-> RNone]
    /\ csess = [i \in Calls |-> 0]
    /\ atState = [i \in Calls |-> "none"]
    /\ atRestart = [i \in Calls |-> FALSE]
    /\ ccancel = [i \in Calls |-> "no"]
    /\ cwritten = [i \in Calls |-> FALSE]
    /\ ready = <<>>
    /\ spc = "loading" /\ cur = 1 /\ lpc = "tempdir"
    /\ dir = [n \in Sites |-> "none"]
    /\ startTried = [n \in Sites |-> FALSE]
    /\ stopTried = [n \in Sites |-> FALSE]
    /\ cleanTried = [n \in Sites |-> FALSE]
    /\ registered = {}
    /\ unwinding = "" /\ raised = "" /\ logged = {}
    /\ script_pc = "init" /\ script_in = <<>> /\ script_eof = FALSE
    /\ script_read = 0 /\ script_out = <<>>

\* ------------------------------------------------------------- the queue
\* A faulty QueueFull, to test that C15 depends on the queue's size: a
\* queue of two slots.
QueueFullAtTwo(s) == Len(queue[s]) >= 2

\* asyncio.Queue(1).full()
QueueFull(s) == Len(queue[s]) >= 1

\* Queue.put_nowait wakes the getter: the writer suspended in queue.get().
WakeGetter(s, rdy) ==
    IF wstate[s] = "get" THEN Schedule(rdy, <<"W", s>>) ELSE rdy

\* `await self.queue.put(...)` then `await f` of RunnerProcess.__call__, for
\* call i on session s: Queue.put re-tests full() every time it runs, so a
\* woken putter that finds the slot taken again waits again, at the back.
QueuePut(s, i, rdy) ==
    IF QueueFull(s)
    THEN /\ putters' = [putters EXCEPT ![s] = Append(@, i)]
         /\ cpc' = [cpc EXCEPT ![i] = "put"]
         /\ ready' = rdy
         /\ UNCHANGED queue
    ELSE /\ queue' = [queue EXCEPT ![s] = Append(@, i)]
         /\ cpc' = [cpc EXCEPT ![i] = "fut"]
         /\ ready' = WakeGetter(s, rdy)
         /\ UNCHANGED putters

\* ------------------------------------------------------------- API calls
\* Runner.command's test of self.process.
CommandGuard == process # None

\* A task that is about to call the Runner is scheduled: calls are numbered
\* in the order their tasks are scheduled, which (the loop being a FIFO) is
\* the order in which the calls are made.
Arrive(k) ==
    LET i == ncalls + 1 IN
    /\ ncalls' = i
    /\ kind' = [kind EXCEPT ![i] = k]
    /\ cname' = [cname EXCEPT ![i] = IF k = "command" THEN "build"
                                     ELSE IF k = "restart" THEN "quit" ELSE ""]
    /\ cpc' = [cpc EXCEPT ![i] = "scheduled"]
    /\ ready' = Append(ready, <<"C", i>>)
    /\ UNCHANGED <<runnerVars, taskVars, muxVars, workerVars, futVars>>
    /\ UNCHANGED <<res, csess, atState, atRestart, ccancel, cwritten>>
    /\ UNCHANGED <<siteVars, scriptVars>>

CallerArrives ==
    /\ ncalls < MaxCalls
    /\ \E k \in {"start", "stop", "command"} : Arrive(k)

\* A restart() is in flight: invoked, and neither returned nor raised.
RestartInFlight ==
    \E j \in Calls : kind[j] = "restart"
                     /\ cpc[j] \in {"put", "fut", "rwait", "startwait"}

\* The task of call i runs and makes call i, of kind k.
Calling(i, k) ==
    /\ UNCHANGED <<siteVars, scriptVars>>
    /\ ready # <<>> /\ Head(ready) = <<"C", i>>
    /\ cpc[i] = "scheduled" /\ kind[i] = k
    /\ atState' = [atState EXCEPT ![i] = MgrState]
    /\ atRestart' = [atRestart EXCEPT ![i] = RestartInFlight]
    /\ UNCHANGED <<ncalls, kind, cname, ccancel, cwritten>>

\* Runner.command(): the coroutine runs to its first suspension (in
\* queue.put, or on its future) or raises at once.
CommandCall(i) ==
    /\ Calling(i, "command")
    /\ IF CommandGuard
       THEN /\ csess' = [csess EXCEPT ![i] = process]
            /\ cfut' = [cfut EXCEPT ![i] = FPending]
            /\ QueuePut(process, i, Tail(ready))
            /\ UNCHANGED res
       ELSE /\ cpc' = [cpc EXCEPT ![i] = "raised"]
            /\ res' = [res EXCEPT ![i] = RRaise("RunnerExitedException", 0)]
            /\ ready' = Tail(ready)
            /\ UNCHANGED <<csess, cfut, queue, putters>>
    /\ UNCHANGED <<runnerVars, taskVars, workerVars, sfut>>
    /\ UNCHANGED <<pending, wstate, wcancel, request_id, stdin>>

\* Runner.start(): the assertion, a new RunnerProcess with its own queue,
\* the settings future, the session task and its done callback; then the
\* caller suspends on the settings future.
StartBody(i, rdy) ==
    IF process # None
    THEN /\ cpc' = [cpc EXCEPT ![i] = "raised"]
         /\ res' = [res EXCEPT ![i] = RRaise("AssertionError", 0)]
         /\ ready' = rdy
         /\ UNCHANGED <<runnerVars, tstate, sfut, csess>>
    ELSE /\ nsess < MaxSessions
         /\ LET s == nsess + 1 IN
            /\ nsess' = s
            /\ process' = s
            /\ process_task' = s
            /\ tstate' = [tstate EXCEPT ![s] = "created"]
            /\ sfut' = [sfut EXCEPT ![s] = FPending]
            /\ csess' = [csess EXCEPT ![i] = s]
            /\ ready' = Schedule(rdy, <<"S", s>>)
         /\ cpc' = [cpc EXCEPT ![i] = "startwait"]
         /\ UNCHANGED <<settings, res>>

StartCall(i) ==
    /\ Calling(i, "start")
    /\ StartBody(i, Tail(ready))
    /\ UNCHANGED <<tcancel, tres, twaiters, muxVars, workerVars, cfut>>

Ended == {"done", "error", "cancelled"}

\* What `await process_task` gives once the task has ended.
TaskOutcome(t) ==
    IF tstate[t] = "done" THEN RReturn(0)
    ELSE IF tstate[t] = "cancelled" THEN RRaise("CancelledError", 0)
    ELSE RRaise(tres[t], 0)

\* Runner.stop(): nothing when process_task is None; otherwise cancel() and
\* await the task.  cancel() on a finished task does nothing and awaiting
\* it returns (or raises) at once.
StopCall(i) ==
    /\ Calling(i, "stop")
    /\ LET t == process_task IN
       /\ csess' = [csess EXCEPT ![i] = t]
       /\ IF t = None
          THEN /\ cpc' = [cpc EXCEPT ![i] = "returned"]
               /\ res' = [res EXCEPT ![i] = RReturn(0)]
               /\ ready' = Tail(ready)
               /\ UNCHANGED <<tcancel, twaiters>>
          ELSE IF tstate[t] \in Ended
          THEN /\ cpc' = [cpc EXCEPT ![i] =
                            IF tstate[t] = "done" THEN "returned" ELSE "raised"]
               /\ res' = [res EXCEPT ![i] = TaskOutcome(t)]
               /\ ready' = Tail(ready)
               /\ UNCHANGED <<tcancel, twaiters>>
          ELSE /\ tcancel' = [tcancel EXCEPT ![t] = TRUE]
               /\ twaiters' = [twaiters EXCEPT ![t] = Append(@, i)]
               /\ ready' = Schedule(Tail(ready), <<"S", t>>)
               /\ cpc' = [cpc EXCEPT ![i] = "stopwait"]
               /\ UNCHANGED res
    /\ UNCHANGED <<runnerVars, tstate, tres, muxVars, workerVars, futVars>>

\* ------------------------------------------------- RunnerProcess.run
\* The state a step of the session task works on: the pending table, the
\* futures, the unread lines, the loop's ready FIFO and the exception (if
\* any) that ended the step.
FutureOf(st, ref) == IF ref = 0 THEN st.sf ELSE st.cf[ref]

\* Future.set_result / set_exception: InvalidStateError on a future that is
\* already done; otherwise the future is resolved and the coroutine
\* suspended on it is scheduled.
Resolve(s, st, ref, val) ==
    IF FutureOf(st, ref).st # "pending"
    THEN [st EXCEPT !.exc = "InvalidStateError"]
    ELSE LET woken == {<<"C", i>> : i \in FutureWaiters(s, ref)}
             rdy == IF woken = {} THEN st.rdy
                    ELSE Schedule(st.rdy, CHOOSE h \in woken : TRUE) IN
         IF ref = 0
         THEN [st EXCEPT !.sf = val, !.rdy = rdy]
         ELSE [st EXCEPT !.cf[ref] = val, !.rdy = rdy]

\* A faulty WriterRecord, to test that C1 depends on the recording: the
\* future is filed under the previous id.
WriterRecordStale(p, rid, f) == [p EXCEPT ![IF rid > 1 THEN rid - 1 ELSE rid] = f]

\* `pending[request_id] = f` of command_writer.
WriterRecord(p, rid, f) == [p EXCEPT ![rid] = f]

\* `f = pending.pop(int(request_id))` of result_reader: the future looked up.
ReaderLookup(p, id) == p[id]

\* One pass of result_reader's loop body on the first unread line:
\*   request_id, result, data_json = line.split(b" ", 2)    ValueError
\*   f = pending.pop(int(request_id))                        KeyError
\*   data = json.loads(data_json)                            ValueError
\*   f.set_result(data) / f.set_exception(RunnerException(data))
ReadLine(s, st) ==
    LET line == Head(st.buf)
        rest == [st EXCEPT !.buf = Tail(@)] IN
    IF line.form = "garbage" THEN [rest EXCEPT !.exc = "ValueError"]
    ELSE IF ~InTable(st.pend, line.id) THEN [rest EXCEPT !.exc = "KeyError"]
    ELSE LET ref == ReaderLookup(st.pend, line.id)
             popped == [rest EXCEPT !.pend[line.id] = NoEntry] IN
         IF line.form = "badjson" THEN [popped EXCEPT !.exc = "ValueError"]
         ELSE Resolve(s, popped, ref,
                      IF line.ok THEN FResult(line.id, line.data)
                      ELSE FException("RunnerException", line.id, line.data))

\* result_reader reads on while a whole line is buffered: readline() only
\* suspends on an empty buffer.
RECURSIVE ReadLoop(_, _)
ReadLoop(s, st) ==
    IF st.exc # "" \/ st.buf = <<>> THEN st ELSE ReadLoop(s, ReadLine(s, st))

\* `for task in pending.values(): task.set_exception(RunnerExitedException())`
\* in the dict's insertion order (0, then the ids as command_writer issued
\* them), from id k on.
RECURSIVE FailPending(_, _, _)
FailPending(s, st, k) ==
    IF st.exc # "" \/ k > MaxCalls THEN st
    ELSE IF ~InTable(st.pend, k) THEN FailPending(s, st, k + 1)
    ELSE FailPending(s, Resolve(s, st, st.pend[k],
                                FException("RunnerExitedException", k, 0)), k + 1)

\* The task finishes: its done callbacks are scheduled in the order they
\* were added: handle_process_exit (added by start()), then the coroutines
\* awaiting the task.
RECURSIVE CallHandles(_)
CallHandles(cs) ==
    IF cs = <<>> THEN <<>> ELSE <<(<<"C", Head(cs)>>)>> \o CallHandles(Tail(cs))

\* A faulty DoneCallbacks, to test that C13 depends on the callback that
\* start() adds: handle_process_exit is not among the callbacks.
DoneCallbacksWithoutExitHandler(s) == CallHandles(twaiters[s])

DoneCallbacks(s) == <<(<<"H", s>>)>> \o CallHandles(twaiters[s])

TaskEnds(s, st, how, exc) ==
    /\ tstate' = [tstate EXCEPT ![s] = how]
    /\ tres' = [tres EXCEPT ![s] = exc]
    /\ tcancel' = [tcancel EXCEPT ![s] = FALSE]
    /\ pending' = [pending EXCEPT ![s] = st.pend]
    /\ sfut' = [sfut EXCEPT ![s] = st.sf]
    /\ cfut' = st.cf
    /\ stdout' = [stdout EXCEPT ![s] = st.buf]
    /\ ready' = ScheduleAll(st.rdy, DoneCallbacks(s))

TaskSuspends(s, st, where) ==
    /\ tstate' = [tstate EXCEPT ![s] = where]
    /\ tcancel' = [tcancel EXCEPT ![s] = FALSE]
    /\ pending' = [pending EXCEPT ![s] = st.pend]
    /\ sfut' = [sfut EXCEPT ![s] = st.sf]
    /\ cfut' = st.cf
    /\ stdout' = [stdout EXCEPT ![s] = st.buf]
    /\ ready' = st.rdy
    /\ UNCHANGED tres

\* `command_writer_task.cancel()`, for a writer task in state ws: nothing
\* on a finished task, otherwise the task is scheduled to be cancelled.
WriterLive(ws) == ws \in {"created", "get"}

\* After `await process.wait()`: lines 74-75, and the task returns.
AfterWait(s, st) ==
    LET st2 == FailPending(s, st, 0) IN
    IF st2.exc # "" THEN TaskEnds(s, st2, "error", st2.exc)
    ELSE TaskEnds(s, st2, "done", "")

\* Lines 71-75: cancel the writer, await process.wait() (which returns at
\* once when the return code is already known), fail what is pending.
Teardown(s, st, ws) ==
    /\ wcancel' = [wcancel EXCEPT ![s] = @ \/ WriterLive(ws)]
    /\ LET st1 == [st EXCEPT !.rdy = IF WriterLive(ws)
                                     THEN Schedule(@, <<"W", s>>) ELSE @] IN
       IF reaped[s] THEN AfterWait(s, st1) ELSE TaskSuspends(s, st1, "wait")

\* result_reader from its loop test on, and what follows it in run(): an
\* exception other than CancelledError leaves run() at once.
Reader(s, st, ws) ==
    LET st1 == ReadLoop(s, st) IN
    IF st1.exc # ""
    THEN TaskEnds(s, st1, "error", st1.exc) /\ UNCHANGED wcancel
    ELSE IF eof[s] THEN Teardown(s, st1, ws)
    ELSE TaskSuspends(s, st1, "read") /\ UNCHANGED wcancel

\* process.terminate() raises ProcessLookupError once the transport has
\* finished (the child reaped and its pipes closed).
TerminateFails(s) == reaped[s] /\ eof[s]

\* `except asyncio.CancelledError: process.terminate()` and what follows.
Cancelled(s, st) ==
    IF TerminateFails(s)
    THEN /\ TaskEnds(s, st, "error", "ProcessLookupError")
         /\ UNCHANGED <<wcancel, sigterm>>
    ELSE /\ sigterm' = [sigterm EXCEPT ![s] = TRUE]
         /\ Teardown(s, st, wstate[s])

\* One step of the session task, from the suspension point it is at to the
\* next one.  A cancel() is delivered as CancelledError at that point.
StepSession(s) ==
    /\ UNCHANGED <<siteVars, scriptVars>>
    /\ ready # <<>> /\ Head(ready) = <<"S", s>>
    /\ LET st == [pend |-> pending[s], sf |-> sfut[s], cf |-> cfut,
                  buf |-> stdout[s], rdy |-> Tail(ready), exc |-> ""] IN
       CASE tstate[s] = "created" ->
              \* cancelled before its first step: the coroutine never runs
              IF tcancel[s]
              THEN /\ TaskEnds(s, st, "cancelled", "CancelledError")
                   /\ UNCHANGED <<proc, wstate, wcancel, sigterm, killed>>
              ELSE \* pending = {0: settings_future}; create_subprocess_exec
                   \E launched \in BOOLEAN :
                     LET st0 == [st EXCEPT !.pend = WriterRecord(EmptyTable, 0, 0)] IN
                     /\ IF launched
                        THEN /\ proc' = [proc EXCEPT ![s] = "running"]
                             /\ TaskSuspends(s, st0, "spawn")
                        ELSE /\ TaskEnds(s, st0, "error", "OSError")
                             /\ UNCHANGED proc
                     /\ UNCHANGED <<wstate, wcancel, sigterm, killed>>
         [] tstate[s] = "spawn" ->
              IF tcancel[s]
              THEN \* the loop closes the transport (kills the child) and
                   \* waits for it before re-raising
                   /\ killed' = [killed EXCEPT ![s] = TRUE]
                   /\ IF reaped[s]
                      THEN TaskEnds(s, st, "cancelled", "CancelledError")
                      ELSE TaskSuspends(s, st, "killwait")
                   /\ UNCHANGED <<proc, wstate, wcancel, sigterm>>
              ELSE \* line 66: the writer task, then result_reader
                   /\ wstate' = [wstate EXCEPT ![s] = "created"]
                   /\ Reader(s, [st EXCEPT !.rdy = Schedule(@, <<"W", s>>)],
                             "created")
                   /\ UNCHANGED <<proc, sigterm, killed>>
         [] tstate[s] = "killwait" ->
              /\ TaskEnds(s, st, "cancelled", "CancelledError")
              /\ UNCHANGED <<proc, wstate, wcancel, sigterm, killed>>
         [] tstate[s] = "read" ->
              /\ IF tcancel[s]
                 THEN Cancelled(s, st)
                 ELSE Reader(s, st, wstate[s]) /\ UNCHANGED sigterm
              /\ UNCHANGED <<proc, wstate, killed>>
         [] tstate[s] = "wait" ->
              /\ IF tcancel[s]
                 THEN TaskEnds(s, st, "cancelled", "CancelledError")
                 ELSE AfterWait(s, st)
              /\ UNCHANGED <<proc, wstate, wcancel, sigterm, killed>>
    /\ UNCHANGED <<runnerVars, twaiters, queue, putters, request_id, stdin>>
    /\ UNCHANGED <<reaped, eof, answered, callVars>>

\* ---------------------------------------------------- command_writer
\* One step of command_writer: a cancel() is delivered in queue.get() and
\* leaves the queued item where it is; otherwise the item is taken (which
\* wakes the first suspended putter), recorded under the next request_id
\* and written; stdin.drain() returns at once while the pipe is below its
\* high-water mark, and the loop suspends in queue.get() again.
\* A faulty NextRequestId, to test that C20 depends on the increment: the
\* id is not advanced.
RequestIdNotAdvanced(rid) == rid

\* `request_id += 1` at the top of command_writer's loop.
NextRequestId(rid) == rid + 1

StepWriter(s) ==
    /\ UNCHANGED <<siteVars, scriptVars>>
    /\ ready # <<>> /\ Head(ready) = <<"W", s>>
    /\ IF wcancel[s]
       THEN /\ wstate' = [wstate EXCEPT ![s] = "cancelled"]
            /\ wcancel' = [wcancel EXCEPT ![s] = FALSE]
            /\ ready' = Tail(ready)
            /\ UNCHANGED <<pending, queue, putters, request_id, stdin>>
       ELSE LET rid == IF wstate[s] = "created" THEN 1 ELSE request_id[s] IN
            /\ wstate' = [wstate EXCEPT ![s] = "get"]
            /\ UNCHANGED wcancel
            /\ IF queue[s] = <<>>
               THEN /\ request_id' = [request_id EXCEPT ![s] = rid]
                    /\ ready' = Tail(ready)
                    /\ UNCHANGED <<pending, queue, putters, stdin>>
               ELSE LET item == Head(queue[s]) IN
                    /\ queue' = [queue EXCEPT ![s] = Tail(@)]
                    /\ IF putters[s] = <<>>
                       THEN ready' = Tail(ready) /\ UNCHANGED putters
                       ELSE /\ putters' = [putters EXCEPT ![s] = Tail(@)]
                            /\ ready' = Schedule(Tail(ready),
                                                 <<"C", Head(putters[s])>>)
                    /\ pending' = [pending EXCEPT ![s] = WriterRecord(@, rid, item)]
                    /\ stdin' = [stdin EXCEPT ![s] =
                                   Append(@, [id |-> rid, name |-> cname[item],
                                              cmd |-> item])]
                    /\ request_id' = [request_id EXCEPT ![s] = NextRequestId(rid)]
    /\ UNCHANGED <<runnerVars, taskVars, workerVars, futVars, callVars>>

\* ------------------------------------------------ resumed API calls
\* A faulty StartResult, to test that C11 depends on the assignment: the
\* settings are left as they were.
StartResultKept(f, old) == old

\* `self.settings = await f` of Runner.start: assigned when f has a result.
StartResult(f, old) == IF f.st = "result" THEN f.data ELSE old

FutureOutcome(f) ==
    IF f.st = "result" THEN RReturn(f.data) ELSE RRaise(f.st, f.data)

Finish(i, r) ==
    /\ res' = [res EXCEPT ![i] = r]
    /\ cpc' = [cpc EXCEPT ![i] = IF r.st = "return" THEN "returned" ELSE "raised"]

\* A suspended call is resumed.
StepCall(i) ==
    /\ UNCHANGED <<siteVars, scriptVars>>
    /\ ready # <<>> /\ Head(ready) = <<"C", i>>
    /\ cpc[i] \in {"put", "fut", "startwait", "stopwait"}
    /\ ~(kind[i] = "restart" /\ cpc[i] = "fut")
    /\ ccancel[i] \in {"no", "sent"}
    /\ CASE cpc[i] = "put" ->
              \* Queue.put's loop runs again
              /\ QueuePut(csess[i], i, Tail(ready))
              /\ UNCHANGED <<res, settings>>
         [] cpc[i] = "fut" ->
              \* `return await f` of RunnerProcess.__call__
              /\ Finish(i, FutureOutcome(cfut[i]))
              /\ ready' = Tail(ready)
              /\ UNCHANGED <<queue, putters, settings>>
         [] cpc[i] = "startwait" ->
              \* `self.settings = await f` of Runner.start
              /\ Finish(i, FutureOutcome(sfut[csess[i]]))
              /\ settings' = StartResult(sfut[csess[i]], settings)
              /\ ready' = Tail(ready)
              /\ UNCHANGED <<queue, putters>>
         [] cpc[i] = "stopwait" ->
              \* `await process_task` of Runner.stop
              /\ Finish(i, TaskOutcome(csess[i]))
              /\ ready' = Tail(ready)
              /\ UNCHANGED <<queue, putters, settings>>
    /\ UNCHANGED <<process, process_task, nsess, taskVars, workerVars, futVars>>
    /\ UNCHANGED <<pending, wstate, wcancel, request_id, stdin>>
    /\ UNCHANGED <<ncalls, kind, cname, csess, atState, atRestart, ccancel, cwritten>>

\* ---------------------------------------------------- Runner.restart
\* `process_task = self.process_task; if process_task: await process_task`
\* and `await self.start()`: awaiting a finished task does not suspend.
RestartAwait(i, rdy) ==
    LET t == process_task IN
    IF t = None \/ (t # None /\ tstate[t] = "done")
    THEN StartBody(i, rdy) /\ UNCHANGED twaiters
    ELSE IF tstate[t] \in Ended
    THEN /\ Finish(i, TaskOutcome(t))
         /\ ready' = rdy
         /\ UNCHANGED <<runnerVars, tstate, sfut, csess, twaiters>>
    ELSE /\ twaiters' = [twaiters EXCEPT ![t] = Append(@, i)]
         /\ csess' = [csess EXCEPT ![i] = t]
         /\ cpc' = [cpc EXCEPT ![i] = "rwait"]
         /\ ready' = rdy
         /\ UNCHANGED <<runnerVars, tstate, sfut, res>>

\* Runner.restart(): with a session, `await self.command("quit")` first.
RestartCall(i) ==
    /\ Calling(i, "restart")
    /\ IF process # None
       THEN /\ csess' = [csess EXCEPT ![i] = process]
            /\ cfut' = [cfut EXCEPT ![i] = FPending]
            /\ QueuePut(process, i, Tail(ready))
            /\ UNCHANGED <<res, runnerVars, tstate, sfut, twaiters>>
       ELSE /\ RestartAwait(i, Tail(ready))
            /\ UNCHANGED <<cfut, queue, putters>>
    /\ UNCHANGED <<tcancel, tres, workerVars>>
    /\ UNCHANGED <<pending, wstate, wcancel, request_id, stdin>>

\* restart() is resumed with the reply to its quit command, or with the end
\* of the session task it awaited.
StepRestart(i) ==
    /\ UNCHANGED <<siteVars, scriptVars>>
    /\ ready # <<>> /\ Head(ready) = <<"C", i>>
    /\ kind[i] = "restart" /\ cpc[i] \in {"fut", "rwait"}
    /\ ccancel[i] \in {"no", "sent"}
    /\ IF cpc[i] = "fut" /\ cfut[i].st # "result"
       THEN /\ Finish(i, FutureOutcome(cfut[i]))
            /\ ready' = Tail(ready)
            /\ UNCHANGED <<runnerVars, tstate, sfut, csess, twaiters>>
       ELSE RestartAwait(i, Tail(ready))
    /\ UNCHANGED <<tcancel, tres, muxVars, workerVars, cfut>>
    /\ UNCHANGED <<ncalls, kind, cname, atState, atRestart, ccancel, cwritten>>

\* ------------------------------------------------ cancelled callers
Suspended == {"put", "fut", "startwait", "stopwait", "rwait"}

\* Task.cancel() on the task that runs call i, suspended in an await.  If
\* what it awaits is already done (its wake-up is scheduled) the
\* CancelledError is thrown at the wake-up.  Otherwise the cancellation is
\* passed on to what it awaits: a future is cancelled (which schedules the
\* wake-up); the session task gets a cancel() of its own and the caller
\* keeps waiting for it.
CancelCall(i) ==
    /\ UNCHANGED <<siteVars, scriptVars>>
    /\ cpc[i] \in Suspended /\ ccancel[i] = "no"
    /\ Cardinality({j \in Calls : ccancel[j] # "no"}) < MaxCancels
    /\ IF <<"C", i>> \in Range(ready)
       THEN /\ ccancel' = [ccancel EXCEPT ![i] = "late"]
            /\ UNCHANGED <<putters, cfut, sfut, tcancel, ready>>
       ELSE CASE cpc[i] = "put" ->
                   /\ putters' = [putters EXCEPT ![csess[i]] =
                                     SelectSeq(@, LAMBDA j : j # i)]
                   /\ ccancel' = [ccancel EXCEPT ![i] = "must"]
                   /\ ready' = Append(ready, <<"C", i>>)
                   /\ UNCHANGED <<cfut, sfut, tcancel>>
              [] cpc[i] = "fut" ->
                   /\ cfut' = [cfut EXCEPT ![i] = FException("CancelledError", 0, 0)]
                   /\ ccancel' = [ccancel EXCEPT ![i] = "must"]
                   /\ ready' = Append(ready, <<"C", i>>)
                   /\ UNCHANGED <<putters, sfut, tcancel>>
              [] cpc[i] = "startwait" ->
                   /\ sfut' = [sfut EXCEPT ![csess[i]] =
                                  FException("CancelledError", 0, 0)]
                   /\ ccancel' = [ccancel EXCEPT ![i] = "must"]
                   /\ ready' = Append(ready, <<"C", i>>)
                   /\ UNCHANGED <<putters, cfut, tcancel>>
              [] cpc[i] \in {"stopwait", "rwait"} ->
                   /\ tcancel' = [tcancel EXCEPT ![csess[i]] = TRUE]
                   /\ ccancel' = [ccancel EXCEPT ![i] = "sent"]
                   /\ ready' = Schedule(ready, <<"S", csess[i]>>)
                   /\ UNCHANGED <<putters, cfut, sfut>>
    /\ UNCHANGED <<runnerVars, tstate, tres, twaiters, workerVars>>
    /\ cwritten' = [cwritten EXCEPT ![i] =
                       kind[i] = "command" /\ csess[i] # 0
                       /\ \E k \in 1..Len(stdin[csess[i]]) :
                            stdin[csess[i]][k].cmd = i]
    /\ UNCHANGED <<pending, queue, wstate, wcancel, request_id, stdin>>
    /\ UNCHANGED <<ncalls, kind, cname, cpc, res, csess, atState, atRestart>>

\* The cancelled caller is resumed: CancelledError leaves the call.  In
\* Queue.put's handler a putter that had been woken before it was cancelled
\* passes the free slot on to the next putter.
StepCancelled(i) ==
    /\ UNCHANGED <<siteVars, scriptVars>>
    /\ ready # <<>> /\ Head(ready) = <<"C", i>>
    /\ cpc[i] \in Suspended /\ ccancel[i] \in {"must", "late"}
    /\ Finish(i, RRaise("CancelledError", 0))
    /\ LET s == csess[i] IN
       IF cpc[i] = "put" /\ ccancel[i] = "late" /\ ~QueueFull(s) /\ putters[s] # <<>>
       THEN /\ putters' = [putters EXCEPT ![s] = Tail(@)]
            /\ ready' = Schedule(Tail(ready), <<"C", Head(putters[s])>>)
       ELSE /\ ready' = Tail(ready)
            /\ UNCHANGED putters
    /\ UNCHANGED <<runnerVars, taskVars, workerVars, futVars>>
    /\ UNCHANGED <<pending, queue, wstate, wcancel, request_id, stdin>>
    /\ UNCHANGED <<ncalls, kind, cname, csess, atState, atRestart, ccancel, cwritten>>

\* Runner.handle_process_exit, the session task's done callback.
HandleProcessExit(s) ==
    /\ UNCHANGED <<siteVars, scriptVars>>
    /\ ready # <<>> /\ Head(ready) = <<"H", s>>
    /\ process' = None
    /\ process_task' = None
    /\ ready' = Tail(ready)
    /\ UNCHANGED <<settings, nsess, taskVars, muxVars, workerVars, futVars, callVars>>

\* ------------------------------------------------------- the worker
\* The worker is an external process: it answers the commands it has read
\* in any order it likes, may emit lines that break the protocol, and may
\* exit at any time.  A line is fed to the StreamReader, which wakes the
\* session task if it is suspended in readline().
Line(k, ok, form, d) == [id |-> k, ok |-> ok, form |-> form, data |-> d]

Emit(s, line) ==
    /\ UNCHANGED <<siteVars, scriptVars>>
    /\ proc[s] = "running"
    /\ tstate[s] = "read"
    /\ Len(stdout[s]) < MaxBuf
    /\ stdout' = [stdout EXCEPT ![s] = Append(@, line)]
    /\ answered' = [answered EXCEPT ![s] = @ \cup {line.id}]
    /\ ready' = Schedule(ready, <<"S", s>>)
    /\ UNCHANGED <<runnerVars, taskVars, muxVars, futVars, callVars>>
    /\ UNCHANGED <<proc, reaped, sigterm, killed, eof>>

\* pelican-runner.py's first line: "0 + <settings>".
WorkerReady(s) ==
    /\ 0 \notin answered[s]
    /\ Emit(s, Line(0, TRUE, "ok", s))

\* A reply to a command the worker has read and not answered yet: "+" or
\* "-", carrying a payload that names the command it answers.
WorkerReply(s) ==
    /\ 0 \in answered[s]
    /\ \E k \in 1..Len(stdin[s]), ok \in BOOLEAN :
         /\ stdin[s][k].id \notin answered[s]
         /\ Emit(s, Line(stdin[s][k].id, ok, "ok", stdin[s][k].cmd))

\* A line that breaks the protocol: one that does not split into three
\* fields, one whose payload is not JSON, or a reply to an id that is not
\* outstanding (answered before, or never issued).
WorkerBadLine(s) ==
    \E line \in {Line(0, TRUE, "garbage", 0)}
                \cup {Line(stdin[s][k].id, TRUE, "badjson", 0) :
                        k \in {j \in 1..Len(stdin[s]) : stdin[s][j].id \notin answered[s]}}
                \cup {Line(k, TRUE, "ok", 0) : k \in answered[s] \cup {MaxCalls}} :
      Emit(s, line)

\* The worker exits (crash, quit, end of its stdin, or the signal sent by
\* terminate()): its stdout reaches end of stream.
WorkerExit(s) ==
    /\ UNCHANGED <<siteVars, scriptVars>>
    /\ proc[s] = "running"
    /\ proc' = [proc EXCEPT ![s] = "exited"]
    /\ eof' = [eof EXCEPT ![s] = TRUE]
    /\ ready' = IF tstate[s] = "read" THEN Schedule(ready, <<"S", s>>) ELSE ready
    /\ UNCHANGED <<runnerVars, taskVars, muxVars, futVars, callVars>>
    /\ UNCHANGED <<reaped, sigterm, killed, stdout, answered>>

\* The child watcher reports the exit: the return code becomes known and
\* whoever awaits it (process.wait(), or the loop after a cancelled launch)
\* is woken.
Reap(s) ==
    /\ UNCHANGED <<siteVars, scriptVars>>
    /\ proc[s] = "exited"
    /\ ~reaped[s]
    /\ tstate[s] \notin Ended     \* nothing reads the return code afterwards
    /\ reaped' = [reaped EXCEPT ![s] = TRUE]
    /\ ready' = IF tstate[s] \in {"wait", "killwait"}
                THEN Schedule(ready, <<"S", s>>) ELSE ready
    /\ UNCHANGED <<runnerVars, taskVars, muxVars, futVars, callVars>>
    /\ UNCHANGED <<proc, sigterm, killed, eof, stdout, answered>>

\* create_subprocess_exec completes: the pipes are connected.
PipesConnected(s) ==
    /\ UNCHANGED <<siteVars, scriptVars>>
    /\ tstate[s] = "spawn"
    /\ <<"S", s>> \notin Range(ready)
    /\ ready' = Append(ready, <<"S", s>>)
    /\ UNCHANGED <<runnerVars, taskVars, muxVars, workerVars, futVars, callVars>>

\* ------------------------------------------------------------ sites.py
\* load_sites loads the projects one after the other (load_site), yields to
\* the application, and after the yield cleans every site up
\* (cleanup_site).  The Runner is used through start(), command("build")
\* and stop(); each of them, like the file system calls, either returns or
\* raises, and each statement is one step.  start() and command() have a
\* third outcome: the session task ends with an exception that run() does
\* not handle (runner.py:37, the launch; runner.py:56-59, a line that
\* cannot be decoded), the future they await is never resolved, and the
\* await never completes.
StartErrors == {"RunnerException", "RunnerExitedException", "CancelledError"}
BuildErrors == {"RunnerException", "RunnerExitedException", "CancelledError"}
StopErrors == {"CancelledError", "InvalidStateError"}
LaunchError == "OSError"
DecodeErrors == {"ValueError", "KeyError"}
MakedirsError == "FileExistsError"
CleanupError == "PermissionError"

\* The statements of load_site inside the inner try block (lines 120-126),
\* whose handler stops the runner.
InRunnerTry(step) == step \in {"start", "build"}

\* A faulty Caught, to test that C18 depends on the bare except: an
\* `except Exception:` lets CancelledError through.
CaughtExceptionOnly(e) == e # "CancelledError"

\* The bare `except:` of cleanup_site catches every exception.
Caught(e) == TRUE

\* The session task died of e without resolving the future that load_site
\* awaits: load_site stays suspended in the await.
LoadHangs(e) ==
    /\ unwinding' = e
    /\ lpc' = "hung"
    /\ UNCHANGED <<spc, cur, registered, raised>>

\* A statement of load_site raises e: the handler of the innermost
\* enclosing try block is entered.
LoadFail(step, e) ==
    /\ unwinding' = e
    /\ lpc' = IF InRunnerTry(step) THEN "unwindstop" ELSE "unwindclean"
    /\ UNCHANGED <<spc, cur, registered, raised>>

\* temp_dir = TemporaryDirectory(prefix="pelicide-"), outside the try.
SiteTempDir ==
    /\ spc = "loading" /\ lpc = "tempdir"
    /\ \E ok \in BOOLEAN :
         IF ok
         THEN /\ dir' = [dir EXCEPT ![cur] = "exists"]
              /\ lpc' = "makedirs"
              /\ UNCHANGED <<spc, raised>>
         ELSE /\ spc' = "failed" /\ lpc' = "raised"
              /\ raised' = "OSError"
              /\ UNCHANGED dir
    /\ UNCHANGED <<cur, startTried, stopTried, cleanTried, registered, unwinding, logged>>
    /\ UNCHANGED <<bridgeVars, scriptVars>>

\* os.makedirs(output_path)
SiteMakedirs ==
    /\ spc = "loading" /\ lpc = "makedirs"
    /\ \E ok \in BOOLEAN :
         IF ok
         THEN /\ lpc' = "start"
              /\ UNCHANGED <<spc, cur, registered, unwinding, raised>>
         ELSE LoadFail("makedirs", MakedirsError)
    /\ UNCHANGED <<dir, startTried, stopTried, cleanTried, logged>>
    /\ UNCHANGED <<bridgeVars, scriptVars>>

\* runner = Runner(...); await runner.start()
SiteStart ==
    /\ spc = "loading" /\ lpc = "start"
    /\ startTried' = [startTried EXCEPT ![cur] = TRUE]
    /\ \/ /\ lpc' = "build"
          /\ UNCHANGED <<spc, cur, registered, unwinding, raised>>
       \/ \E e \in StartErrors : LoadFail("start", e)
       \/ \E e \in {LaunchError} \cup DecodeErrors : LoadHangs(e)
    /\ UNCHANGED <<dir, stopTried, cleanTried, logged>>
    /\ UNCHANGED <<bridgeVars, scriptVars>>

\* await runner.command("build"); return Site(...); then, in load_sites,
\* sites[config.id] = site and add_static; after the last project the
\* directory is registered with the injector and load_sites yields.
SiteBuild ==
    /\ spc = "loading" /\ lpc = "build"
    /\ \/ /\ registered' = registered \cup {cur}
          /\ IF cur < NSites
             THEN cur' = cur + 1 /\ lpc' = "tempdir" /\ UNCHANGED spc
             ELSE spc' = "serving" /\ lpc' = "yield" /\ UNCHANGED cur
          /\ UNCHANGED <<unwinding, raised>>
       \/ \E e \in BuildErrors : LoadFail("build", e)
       \/ \E e \in DecodeErrors : LoadHangs(e)
    /\ UNCHANGED <<dir, startTried, stopTried, cleanTried, logged>>
    /\ UNCHANGED <<bridgeVars, scriptVars>>

\* The inner handler: `await runner.stop(); raise`.  An exception of
\* stop() takes the place of the one being handled.
SiteUnwindStop ==
    /\ spc = "loading" /\ lpc = "unwindstop"
    /\ stopTried' = [stopTried EXCEPT ![cur] = TRUE]
    /\ \/ UNCHANGED unwinding
       \/ \E e \in StopErrors : unwinding' = e
    /\ lpc' = "unwindclean"
    /\ UNCHANGED <<spc, cur, dir, startTried, cleanTried, registered, raised, logged>>
    /\ UNCHANGED <<bridgeVars, scriptVars>>

\* The outer handler: `temp_dir.cleanup(); raise`.  The exception leaves
\* load_site and load_sites: the application does not start.
SiteUnwindCleanup ==
    /\ spc = "loading" /\ lpc = "unwindclean"
    /\ cleanTried' = [cleanTried EXCEPT ![cur] = TRUE]
    /\ \E ok \in BOOLEAN :
         IF ok
         THEN /\ dir' = [dir EXCEPT ![cur] = "removed"]
              /\ raised' = unwinding
         ELSE /\ raised' = CleanupError
              /\ UNCHANGED dir
    /\ spc' = "failed" /\ lpc' = "raised"
    /\ UNCHANGED <<cur, startTried, stopTried, registered, unwinding, logged>>
    /\ UNCHANGED <<bridgeVars, scriptVars>>

\* The application shuts down: load_sites is resumed after its yield and
\* walks sites.values(), in insertion order.
SiteShutdown ==
    /\ spc = "serving"
    /\ spc' = "teardown" /\ cur' = 1 /\ lpc' = "stop"
    /\ UNCHANGED <<dir, startTried, stopTried, cleanTried, registered, unwinding,
                   raised, logged>>
    /\ UNCHANGED <<bridgeVars, scriptVars>>

\* cleanup_site, lines 133-136: await site.runner.stop(), logged if it
\* raises.
SiteCleanupStop ==
    /\ spc = "teardown" /\ lpc = "stop"
    /\ stopTried' = [stopTried EXCEPT ![cur] = TRUE]
    /\ \/ /\ lpc' = "clean"
          /\ UNCHANGED <<spc, raised, logged>>
       \/ \E e \in StopErrors :
            IF Caught(e)
            THEN /\ logged' = logged \cup {<<cur, "stop">>}
                 /\ lpc' = "clean"
                 /\ UNCHANGED <<spc, raised>>
            ELSE /\ spc' = "aborted" /\ lpc' = "raised"
                 /\ raised' = e
                 /\ UNCHANGED logged
    /\ UNCHANGED <<cur, dir, startTried, cleanTried, registered, unwinding>>
    /\ UNCHANGED <<bridgeVars, scriptVars>>

\* cleanup_site, lines 138-141: site.temp_dir.cleanup(), logged if it
\* raises; then the next site, or the end of load_sites.
SiteCleanupDir ==
    /\ spc = "teardown" /\ lpc = "clean"
    /\ cleanTried' = [cleanTried EXCEPT ![cur] = TRUE]
    /\ \E ok \in BOOLEAN :
         IF ok
         THEN /\ dir' = [dir EXCEPT ![cur] = "removed"]
              /\ UNCHANGED logged
         ELSE /\ logged' = logged \cup {<<cur, "dir">>}
              /\ UNCHANGED dir
    /\ IF cur < NSites
       THEN cur' = cur + 1 /\ lpc' = "stop" /\ UNCHANGED spc
       ELSE spc' = "closed" /\ lpc' = "done" /\ UNCHANGED cur
    /\ UNCHANGED <<startTried, stopTried, registered, unwinding, raised>>
    /\ UNCHANGED <<bridgeVars, scriptVars>>

NextSites ==
    \/ SiteTempDir
    \/ SiteMakedirs
    \/ SiteStart
    \/ SiteBuild
    \/ SiteUnwindStop
    \/ SiteUnwindCleanup
    \/ SiteShutdown
    \/ SiteCleanupStop
    \/ SiteCleanupDir

SpecSites == Init /\ [][NextSites]_vars

\* ---------------------------------------------------- pelican-runner.py
\* The worker script on its own: run() initialises pelican, writes the
\* ready line and then serves command lines from stdin one at a time.  The
\* other end writes well-formed lines "<id> <name> <json>" with ids 1, 2,
\* 3, ... and may close the stream.
CommandNames == {"quit", "setting", "extensions", "scan", "build", "render",
                 "slugify", "exec", "other"}

\* The branches of the dispatch whose body is inside `try: ... except
\* Exception:` and answer a failure with fail(cmd_id, repr(e)).
InTryBlock(cmd) == cmd \in {"scan", "build", "render", "exec"}

\* The branches whose body can raise: settings[args[0]] and len(args) in
\* "setting", args[0] in "slugify", and the pelican calls of the others.
\* "quit", "extensions" and the final else only call success / fail.
MayRaise(cmd) == cmd \in {"setting", "scan", "build", "render", "slugify", "exec"}

ReplyLine(id, ok, note) == [id |-> id, ok |-> ok, note |-> note]

\* Lines 188-231: get_instance, Readers, then the ready line "0 + ...".
\* An exception here ends the script before anything is written.
ScriptInit ==
    /\ script_pc = "init"
    /\ \E ok \in BOOLEAN :
         IF ok
         THEN /\ script_pc' = "serving"
              /\ script_out' = Append(script_out, ReplyLine(0, TRUE, "settings"))
         ELSE /\ script_pc' = "failed"
              /\ UNCHANGED script_out
    /\ UNCHANGED <<script_in, script_eof, script_read>>
    /\ UNCHANGED <<bridgeVars, siteVars>>

\* The other end writes one more command line.
ScriptGetsLine ==
    /\ ~script_eof /\ Len(script_in) < MaxLines
    /\ \E name \in CommandNames :
         script_in' = Append(script_in, [id |-> Len(script_in) + 1, name |-> name])
    /\ UNCHANGED <<script_pc, script_eof, script_read, script_out>>
    /\ UNCHANGED <<bridgeVars, siteVars>>

\* The other end closes the script's stdin.
ScriptStdinClosed ==
    /\ ~script_eof
    /\ script_eof' = TRUE
    /\ UNCHANGED <<script_pc, script_in, script_read, script_out>>
    /\ UNCHANGED <<bridgeVars, siteVars>>

\* One pass of the `while True:` loop on a line (lines 233-320): read the
\* line, dispatch on the name, reply.
ScriptServes ==
    /\ script_pc = "serving" /\ script_read < Len(script_in)
    /\ LET line == script_in[script_read + 1] IN
       /\ script_read' = script_read + 1
       /\ \E raises \in BOOLEAN :
            IF line.name = "quit"
            THEN /\ script_out' = Append(script_out, ReplyLine(line.id, TRUE, "quit"))
                 /\ script_pc' = "exited"
            ELSE IF line.name \notin CommandNames \ {"other"}
            THEN /\ script_out' = Append(script_out,
                                         ReplyLine(line.id, FALSE, "No such command"))
                 /\ UNCHANGED script_pc
            ELSE IF ~(raises /\ MayRaise(line.name))
            THEN /\ script_out' = Append(script_out, ReplyLine(line.id, TRUE, "result"))
                 /\ UNCHANGED script_pc
            ELSE IF InTryBlock(line.name)
            THEN /\ script_out' = Append(script_out, ReplyLine(line.id, FALSE, "repr(e)"))
                 /\ UNCHANGED script_pc
            ELSE /\ script_pc' = "crashed"
                 /\ UNCHANGED script_out
    /\ UNCHANGED <<script_in, script_eof>>
    /\ UNCHANGED <<bridgeVars, siteVars>>

\* `if not command: break`: readline() returns "" at end of stream.
ScriptReadsEof ==
    /\ script_pc = "serving" /\ script_read = Len(script_in) /\ script_eof
    /\ script_pc' = "exited"
    /\ UNCHANGED <<script_in, script_eof, script_read, script_out>>
    /\ UNCHANGED <<bridgeVars, siteVars>>

NextScript ==
    \/ ScriptInit
    \/ ScriptGetsLine
    \/ ScriptStdinClosed
    \/ ScriptServes
    \/ ScriptReadsEof

SpecScript == Init /\ [][NextScript]_vars

\* ------------------------------------------------------ specification
Next ==
    \/ CallerArrives
    \/ \E i \in Calls : CommandCall(i)
    \/ \E i \in Calls : StartCall(i)
    \/ \E i \in Calls : StopCall(i)
    \/ \E s \in Sessions : StepSession(s)
    \/ \E s \in Sessions : StepWriter(s)
    \/ \E i \in Calls : StepCall(i)
    \/ \E s \in Sessions : HandleProcessExit(s)
    \/ \E s \in Sessions : PipesConnected(s)
    \/ \E s \in Sessions : WorkerReady(s)
    \/ \E s \in Sessions : WorkerReply(s)
    \/ \E s \in Sessions : WorkerBadLine(s)
    \/ \E s \in Sessions : WorkerExit(s)
    \/ \E s \in Sessions : Reap(s)

Spec == Init /\ [][Next]_vars

\* The event loop runs the handle at the head of its ready queue: the steps
\* that are a handle being run.
LoopStep ==
    \/ \E i \in Calls : CommandCall(i) \/ StartCall(i) \/ StopCall(i) \/ StepCall(i)
    \/ \E s \in Sessions : StepSession(s) \/ StepWriter(s) \/ HandleProcessExit(s)

LiveCallerArrives ==
    /\ ncalls < MaxLiveCalls
    /\ \E k \in {"start", "stop", "command"} : Arrive(k)

NextLive ==
    \/ LiveCallerArrives
    \/ \E i \in Calls : CommandCall(i)
    \/ \E i \in Calls : StartCall(i)
    \/ \E i \in Calls : StopCall(i)
    \/ \E s \in Sessions : StepSession(s)
    \/ \E s \in Sessions : StepWriter(s)
    \/ \E i \in Calls : StepCall(i)
    \/ \E s \in Sessions : HandleProcessExit(s)
    \/ \E s \in Sessions : PipesConnected(s)
    \/ \E s \in Sessions : WorkerReady(s)
    \/ \E s \in Sessions : WorkerReply(s)
    \/ \E s \in Sessions : WorkerBadLine(s)
    \/ \E s \in Sessions : WorkerExit(s)
    \/ \E s \in Sessions : Reap(s)

\* The same program under a running event loop: BaseEventLoop.run_forever
\* keeps calling _run_once, which runs the ready handles in FIFO order, so a
\* handle that is ready is eventually run.  Nothing is assumed of the
\* callers, the worker or the kernel.
SpecLive == Init /\ [][NextLive]_vars /\ WF_vars(LoopStep)

\* The same program with restart() among the calls.
RestartCallerArrives ==
    /\ ncalls < MaxExtCalls
    /\ \E k \in {"start", "stop", "command", "restart"} : Arrive(k)

NextRestart ==
    \/ RestartCallerArrives
    \/ \E i \in Calls : CommandCall(i)
    \/ \E i \in Calls : StartCall(i)
    \/ \E i \in Calls : StopCall(i)
    \/ \E i \in Calls : RestartCall(i)
    \/ \E s \in Sessions : StepSession(s)
    \/ \E s \in Sessions : StepWriter(s)
    \/ \E i \in Calls : StepCall(i)
    \/ \E i \in Calls : StepRestart(i)
    \/ \E s \in Sessions : HandleProcessExit(s)
    \/ \E s \in Sessions : PipesConnected(s)
    \/ \E s \in Sessions : WorkerReady(s)
    \/ \E s \in Sessions : WorkerReply(s)
    \/ \E s \in Sessions : WorkerBadLine(s)
    \/ \E s \in Sessions : WorkerExit(s)
    \/ \E s \in Sessions : Reap(s)

SpecRestart == Init /\ [][NextRestart]_vars

\* The same program with callers' tasks being cancelled.
CancelCallerArrives ==
    /\ ncalls < MaxExtCalls
    /\ \E k \in {"start", "stop", "command"} : Arrive(k)

NextCancel ==
    \/ CancelCallerArrives
    \/ \E i \in Calls : CommandCall(i)
    \/ \E i \in Calls : StartCall(i)
    \/ \E i \in Calls : StopCall(i)
    \/ \E s \in Sessions : StepSession(s)
    \/ \E s \in Sessions : StepWriter(s)
    \/ \E i \in Calls : StepCall(i)
    \/ \E i \in Calls : CancelCall(i)
    \/ \E i \in Calls : StepCancelled(i)
    \/ \E s \in Sessions : HandleProcessExit(s)
    \/ \E s \in Sessions : PipesConnected(s)
    \/ \E s \in Sessions : WorkerReady(s)
    \/ \E s \in Sessions : WorkerReply(s)
    \/ \E s \in Sessions : WorkerBadLine(s)
    \/ \E s \in Sessions : WorkerExit(s)
    \/ \E s \in Sessions : Reap(s)

SpecCancel == Init /\ [][NextCancel]_vars

\* ------------------------------------------------------------ claims
\* Call i's command was written to session s; the id it was written with.
Written(i, s) == \E k \in 1..Len(stdin[s]) : stdin[s][k].cmd = i
WrittenId(i) ==
    LET s == csess[i] IN
    stdin[s][CHOOSE k \in 1..Len(stdin[s]) : stdin[s][k].cmd = i].id
IsCommand(i) == kind[i] = "command" /\ csess[i] # 0

\* C1: whatever order the worker answers in, a reply resolves the future of
\* the caller whose command was written with the reply's id: a caller's
\* future (and what the caller then returns or raises) only ever carries
\* the reply to its own command, and the settings future only the reply
\* with id 0.
C1_RepliesReachTheirCaller ==
    /\ \A i \in Calls :
         cfut[i].st \in {"result", "RunnerException"} =>
           /\ Written(i, csess[i])
           /\ cfut[i].id = WrittenId(i)
           /\ cfut[i].data = i
    /\ \A i \in Calls :
         IsCommand(i) /\ res[i].st \in {"return", "RunnerException"} =>
           res[i].data = i
    /\ \A s \in Sessions :
         sfut[s].st \in {"result", "RunnerException"} =>
           sfut[s].id = 0 /\ sfut[s].data = s

\* C1 witness: two commands of one session are outstanding and the later
\* one has been answered first.
C1_Witness ==
    \E i, j \in Calls :
      /\ IsCommand(i) /\ IsCommand(j) /\ csess[i] = csess[j]
      /\ Written(i, csess[i]) /\ Written(j, csess[j])
      /\ WrittenId(i) < WrittenId(j)
      /\ cfut[i].st = "pending"
      /\ res[j].st = "return"

\* C2 (as claimed): the commands of a session are written in the order in
\* which their callers entered command(): calls are numbered in that order.
C2_WrittenInSubmitOrder ==
    \A s \in Sessions : \A k, l \in 1..Len(stdin[s]) :
      k < l => stdin[s][k].cmd < stdin[s][l].cmd

\* C3 (as claimed): when the reader has returned on end of stream, every
\* command written and unanswered has its future failed with
\* RunnerExitedException by the time the session task ends; after that
\* nothing resolves it any more.
C3_EofFailsOutstanding ==
    [][\A s \in Sessions, i \in Calls :
         ( /\ tstate[s] = "wait" /\ ~sigterm[s]
           /\ Written(i, s) /\ cfut[i].st = "pending"
           /\ tstate'[s] \in Ended )
         => cfut'[i].st = "RunnerExitedException"]_vars

\* C4 (as claimed): a command() made while the manager is Stopped or
\* Starting raises the Not-Running error and nothing is queued for it.
C4_NoCommandUnlessRunning ==
    \A i \in Calls :
      kind[i] = "command" /\ atState[i] \in {"Stopped", "Starting"} =>
        /\ res[i].st = "RunnerExitedException"
        /\ cfut[i] = FNone

\* C5 (as claimed): a "-" reply with id k fails the caller who submitted
\* the k-th command of the session.
SubmitRank(i) ==
    Cardinality({j \in 1..i : kind[j] = "command" /\ csess[j] = csess[i]})
C5_ErrorReachesKthSubmitter ==
    \A i \in Calls :
      cfut[i].st = "RunnerException" => SubmitRank(i) = cfut[i].id

\* C6 (as claimed): once a reply line with an unknown id or one that does
\* not parse has ended the session and the loop has run its callbacks, no
\* caller of that session is still waiting.
C6_ProtocolErrorFailsCallers ==
    \A s \in Sessions :
      tstate[s] = "error" /\ tres[s] \in {"KeyError", "ValueError"} /\ ready = <<>> =>
        \A i \in Calls : IsCommand(i) /\ csess[i] = s => cfut[i].st # "pending"

\* C7 (as claimed): once the session task has ended and the loop has run
\* its callbacks, the start() that created the session has returned or
\* raised.
C7_StartCompletes ==
    \A i \in Calls :
      kind[i] = "start" /\ csess[i] # 0 /\ tstate[csess[i]] \in Ended /\ ready = <<>> =>
        cpc[i] \in {"returned", "raised"}

\* C8 (as claimed): in the step in which start() raises its startup error
\* the manager is Stopped.
C8_StartupErrorLeavesStopped ==
    [][\A i \in Calls :
         kind[i] = "start" /\ cpc[i] = "startwait" /\ cpc'[i] = "raised" =>
           process' = None /\ process_task' = None]_vars

\* C10 (as claimed): terminate() is sent to a session that had become
\* Running only after a quit command was written to it.
C10_QuitBeforeTerminate ==
    \A s \in Sessions :
      sigterm[s] /\ sfut[s].st = "result" =>
        \E k \in 1..Len(stdin[s]) : stdin[s][k].name = "quit"

\* C9 (as claimed): in the step in which a stop() made on a Running manager
\* returns, the manager is Stopped and the subprocess has exited; a stop()
\* made on a Stopped manager returns at once and changes nothing else.
C9_StopLeavesStopped ==
    [][\A i \in Calls :
         /\ ( kind'[i] = "stop" /\ atState'[i] = "Running"
              /\ cpc[i] # "returned" /\ cpc'[i] = "returned" )
            => ( /\ process' = None /\ process_task' = None
                 /\ proc'[csess'[i]] = "exited" )
         /\ ( kind'[i] = "stop" /\ atState'[i] = "Stopped" /\ cpc[i] = "scheduled" )
            => ( /\ cpc'[i] = "returned"
                 /\ UNCHANGED <<runnerVars, taskVars, muxVars, workerVars,
                                futVars>> )]_vars

\* C11: in the step in which restart() returns, the manager is Running on
\* the session that restart() created, which is the newest one (a later one
\* than the session restart() was called on), and Runner.settings is the
\* payload of that session's ready reply.
C11_RestartReturnsFreshRunning ==
    [][\A i \in Calls :
         kind[i] = "restart" /\ cpc[i] # "returned" /\ cpc'[i] = "returned" =>
           LET s == csess'[i] IN
           /\ process' = s /\ process_task' = s
           /\ s = nsess' /\ (atState[i] # "Stopped" => s > 1)
           /\ sfut'[s].st = "result" /\ sfut'[s].id = 0
           /\ settings' = sfut'[s].data /\ settings' = s]_vars

\* C11 witness: a restart() called on a Running manager with a command
\* outstanding has returned, and the settings are the new session's.
C11_Witness ==
    \E i, j \in Calls :
      /\ kind[i] = "restart" /\ cpc[i] = "returned" /\ atState[i] = "Running"
      /\ kind[j] = "command" /\ j < i /\ csess[j] = 1
      /\ res[j].st = "RunnerExitedException"
      /\ settings = 2 /\ process = 2

\* C12 (as claimed): a command() made while a restart() is in flight raises
\* the Not-Running error at once: no future is created for it and nothing
\* is queued or written.
C12_NoCommandDuringRestart ==
    \A i \in Calls :
      kind[i] = "command" /\ atRestart[i] =>
        /\ res[i].st = "RunnerExitedException"
        /\ cfut[i] = FNone

\* C14 (as claimed): at most one worker subprocess of the manager is
\* running at any time.
C14_OneLiveSubprocess ==
    Cardinality({s \in Sessions : proc[s] = "running"}) <= 1

\* C15: the queue of a session never holds more than one command, and a
\* caller suspended in queue.put has no command in the queue.
C15_QueueHoldsAtMostOne ==
    \A s \in Sessions :
      /\ Len(queue[s]) <= 1
      /\ \A i \in Calls :
           cpc[i] = "put" /\ csess[i] = s => i \notin Range(queue[s])

\* C15 witness: one command is queued and a second caller is suspended in
\* queue.put behind it.
C15_Witness ==
    \E s \in Sessions, i \in Calls :
      /\ Len(queue[s]) = 1 /\ putters[s] # <<>>
      /\ cpc[i] = "put" /\ csess[i] = s /\ <<"C", i>> \notin Range(ready)

\* C20: in each session the k-th line written to the worker carries id k (so
\* ids are 1, 2, 3, ... in the order the writer takes commands: increasing,
\* not reused, never 0); key 0 of the pending table holds nothing but the
\* settings future, which is there once the subprocess is being launched,
\* and the keys from 1 on hold the futures of the commands written under
\* them.
C20_IdsCountFromOne ==
    \A s \in Sessions :
      /\ \A k \in 1..Len(stdin[s]) : stdin[s][k].id = k
      /\ pending[s][0] \in {NoEntry, 0}
      /\ tstate[s] = "spawn" => pending[s][0] = 0 /\ proc[s] # "none"
      /\ proc[s] # "none" /\ sfut[s].st = "pending" /\ tres[s] = ""
           /\ 0 \notin answered[s] => pending[s][0] = 0
      /\ \A k \in Ids \ {0} :
           InTable(pending[s], k) =>
             /\ k <= Len(stdin[s])
             /\ pending[s][k] = stdin[s][k].cmd

\* C20 witness: a session has written two commands while the ready reply
\* is still outstanding under key 0.
C20_Witness ==
    \E s \in Sessions :
      /\ Len(stdin[s]) >= 2
      /\ pending[s][0] = 0 /\ InTable(pending[s], 1) /\ InTable(pending[s], 2)

\* C13: once the session task of the manager's session has ended, however
\* it ended, the manager eventually is Stopped (process and process_task
\* are None); the manager leaves a session only in a step of
\* handle_process_exit for an ended task, and then to Stopped; and a start()
\* that runs on a Stopped manager is accepted: it creates a new session and
\* raises no AssertionError.
C13_EndedSessionClearsManager ==
    /\ (process # None /\ tstate[process] \in Ended)
         ~> (process = None /\ process_task = None)
    /\ [][\A s \in Sessions :
            process = s /\ process' # s =>
              /\ tstate[s] \in Ended
              /\ process' = None /\ process_task' = None]_vars
    /\ [][\A i \in Calls :
            kind[i] = "start" /\ process = None /\ cpc[i] = "scheduled"
            /\ cpc'[i] # "scheduled" =>
              /\ nsess' = nsess + 1 /\ process' = nsess' /\ csess'[i] = nsess'
              /\ tstate'[nsess'] = "created" /\ cpc'[i] = "startwait"]_vars

\* C13 witness: the first session ended with an error, the manager was
\* cleared, and a later start() has brought a second session to Running.
C13_Witness ==
    /\ tstate[1] = "error" /\ process = 2 /\ process_task = 2
    /\ sfut[2].st = "result" /\ tstate[2] = "read"
    /\ \E i \in Calls : kind[i] = "start" /\ csess[i] = 2 /\ cpc[i] = "returned"

\* The teardown of session s has run to completion: the subprocess was
\* terminated and waited for, the writer is cancelled, no caller whose
\* command was written and no start() is left with a pending future, and
\* the manager no longer holds the session.
TornDown(s) ==
    /\ tstate[s] \in Ended
    /\ sigterm[s] \/ killed[s]
    /\ reaped[s]
    /\ wstate[s] \in {"none", "cancelled"}
    /\ sfut[s].st # "pending"
    /\ \A j \in Calls :
         IsCommand(j) /\ csess[j] = s /\ Written(j, s) => cfut[j].st # "pending"
    /\ process # s /\ process_task # s

\* C16 (as claimed): when a stop() whose caller was cancelled while it
\* awaited the session task has ended, it was the only stop() on that
\* session, the session had begun its teardown (terminate() was called) and
\* the loop has run all callbacks, the session's teardown has run to
\* completion.
C16_CancelledStopStillTearsDown ==
    \A i \in Calls :
      /\ kind[i] = "stop" /\ csess[i] # 0 /\ ccancel[i] = "sent"
      /\ cpc[i] \in {"returned", "raised"} /\ ready = <<>>
      /\ sigterm[csess[i]]
      /\ \A j \in Calls \ {i} : ~(kind[j] = "stop" /\ csess[j] = csess[i])
      => TornDown(csess[i])

\* C17 (as claimed): after the task of a caller whose command had been
\* written is cancelled, the session task does not end with
\* InvalidStateError (neither the reader nor the teardown is broken by the
\* cancelled future), and once the session has ended and the loop has run
\* all callbacks no other caller's written command is left unresolved.
C17_CancelledCommandAffectsOnlyCaller ==
    \A i \in Calls :
      cwritten[i] /\ cpc[i] = "raised" /\ res[i].st = "CancelledError" =>
        LET s == csess[i] IN
        /\ tres[s] # "InvalidStateError"
        /\ tstate[s] = "done" /\ ready = <<>> =>
             \A j \in Calls \ {i} :
               IsCommand(j) /\ csess[j] = s /\ Written(j, s) =>
                 cfut[j].st # "pending"

\* C18: the teardown of load_sites is never left through an exception, and
\* when it has finished every site of the directory has had its runner's
\* stop() and its scratch directory's cleanup() called, whatever raised on
\* the way; every scratch directory is removed except one whose own
\* cleanup() raised, and that failure is logged.
C18_TeardownReachesEverySite ==
    /\ spc # "aborted"
    /\ spc \in {"serving", "teardown", "closed"} => registered = Sites
    /\ spc = "closed" =>
         \A n \in registered :
           /\ stopTried[n] /\ cleanTried[n]
           /\ dir[n] = "removed" \/ (dir[n] = "exists" /\ <<n, "dir">> \in logged)
    /\ spc = "teardown" =>
         \A n \in registered :
           n < cur => /\ stopTried[n] /\ cleanTried[n]
                      /\ dir[n] = "removed" \/ <<n, "dir">> \in logged

\* C18 witness: teardown has finished; the first site's stop() raised and
\* was logged, and both scratch directories are removed.
C18_Witness ==
    /\ spc = "closed"
    /\ <<1, "stop">> \in logged
    /\ \A n \in Sites : dir[n] = "removed" /\ stopTried[n]

\* C19 (as claimed): a failure of a step of load_site is always on its way
\* to the caller (load_site is in one of its handlers or has raised), never
\* lost with load_site left suspended; and when load_site has raised after
\* creating the scratch directory, cleanup() of the directory was called
\* and the directory is removed unless cleanup() itself raised; if
\* runner.start() had been called, runner.stop() was called too; and the
\* site is not in the directory.
C19_FailedLoadUnwinds ==
    /\ unwinding # "" => lpc \in {"unwindstop", "unwindclean", "raised"}
    /\ spc = "failed" /\ dir[cur] # "none" =>
         /\ cleanTried[cur]
         /\ raised # CleanupError => dir[cur] = "removed"
         /\ startTried[cur] => stopTried[cur]
         /\ raised \in {MakedirsError, CleanupError} \cup StartErrors
                       \cup BuildErrors \cup StopErrors
         /\ cur \notin registered

\* C26 (as claimed): when load_sites has finished, by raising during startup
\* or by completing its teardown, every scratch directory that was created
\* has had cleanup() called on it and every runner that was started has had
\* stop() called on it.
C26_NothingOutlivesLoadSites ==
    spc \in {"failed", "closed"} =>
      \A n \in Sites :
        /\ dir[n] # "none" => cleanTried[n]
        /\ startTried[n] => stopTried[n]

\* C21 (as claimed): while the reader of a session is running, (a) every
\* key of the pending table was issued by the session: 0, or the id of a
\* written command, whose future it holds; (b) every written command has
\* its entry unless the worker has emitted a reply with its id; (c) an entry
\* whose reply was consumed is gone: a future resolved by a reply is not in
\* the table; (d) every future held in the table is unresolved.
C21_PendingTableIsOutstanding ==
    \A s \in Sessions :
      tstate[s] = "read" =>
        /\ \A k \in Ids :
             InTable(pending[s], k) =>
               /\ k = 0 \/ k <= Len(stdin[s])
               /\ k = 0 => pending[s][k] = 0
               /\ k # 0 => pending[s][k] = stdin[s][k].cmd
               /\ FutureOf([sf |-> sfut[s], cf |-> cfut], pending[s][k]).st
                    = "pending"
        /\ \A k \in 1..Len(stdin[s]) :
             InTable(pending[s], stdin[s][k].id) \/ stdin[s][k].id \in answered[s]
        /\ \A i \in Calls :
             IsCommand(i) /\ csess[i] = s /\ Written(i, s)
             /\ cfut[i].st \in {"result", "RunnerException"} =>
               ~InTable(pending[s], WrittenId(i))

\* The reader of session s has stopped on end of stream or on a
\* cancellation: run() is past `await result_reader()` through the normal
\* exit or through the CancelledError handler.
ReaderStopped(s) ==
    \/ tstate[s] \in {"wait", "done"}
    \/ tstate[s] = "cancelled" /\ sigterm[s]
    \/ tstate[s] = "error" /\ tres[s] = "ProcessLookupError"

\* C22 (as claimed): in every step, (a) a future that has been failed with
\* RunnerExitedException belongs to a session whose reader has stopped,
\* whose writer has been cancelled and whose subprocess's exit has been
\* awaited; (b) once the reader has stopped on end of stream or on a
\* cancellation, the writer has been cancelled, no further line is written
\* to the subprocess and no entry is added to the pending table.
C22_TerminationOrder ==
    [][\A s \in Sessions :
         /\ ( \/ sfut'[s].st = "RunnerExitedException"
              \/ \E i \in Calls : csess'[i] = s
                                  /\ cfut'[i].st = "RunnerExitedException" )
            => /\ ReaderStopped(s)'
               /\ wstate'[s] = "cancelled" \/ wcancel'[s]
               /\ reaped'[s]
         /\ ReaderStopped(s)'
            => wstate'[s] = "cancelled" \/ wcancel'[s]
         /\ ReaderStopped(s)
            => /\ stdin'[s] = stdin[s]
               /\ \A k \in Ids :
                    InTable(pending'[s], k) => InTable(pending[s], k)]_vars

\* C23 (as claimed): once a session's task has run its teardown to the end
\* and the loop has run every handle that was ready, every command() that
\* was accepted by that session has returned or raised: none is left
\* suspended in queue.put or on its future.
C23_NoCallerLeftWaiting ==
    \A i \in Calls :
      IsCommand(i) /\ tstate[csess[i]] = "done" /\ ready = <<>> =>
        cpc[i] \in {"returned", "raised"}

\* C24 (as claimed): when a stop() that was made while the manager was
\* Starting and the session task had not ended (so that stop() cancelled
\* it and waited for it) has ended, it was the only stop() on that session,
\* and the loop has run every handle that was ready, then stop() has
\* returned (not raised), the manager no longer holds the session, and the
\* start() that created the session has raised.
C24_StopWhileStarting ==
    \A i \in Calls :
      /\ kind[i] = "stop" /\ atState[i] = "Starting" /\ csess[i] # 0
      /\ i \in Range(twaiters[csess[i]])
      /\ cpc[i] \in {"returned", "raised"} /\ ready = <<>>
      /\ \A j \in Calls \ {i} : ~(kind[j] = "stop" /\ csess[j] = csess[i])
      => /\ cpc[i] = "returned"
         /\ process # csess[i] /\ process_task # csess[i]
         /\ \A j \in Calls :
              kind[j] = "start" /\ csess[j] = csess[i] => cpc[j] = "raised"

\* C25 (as claimed): once the script has initialised, its first output
\* line is the ready line with id 0, and between two reads its output holds
\* exactly one reply for every command line it has read, in the order read
\* and tagged with the line's id: "+" for quit, after which it has exited
\* and reads nothing more; "-" with "No such command" for an unknown name,
\* after which it keeps serving; "+" or "-" for the other commands.
C25_OneReplyPerCommand ==
    script_pc \in {"serving", "exited", "crashed"} =>
      /\ script_out # <<>> /\ script_out[1] = ReplyLine(0, TRUE, "settings")
      /\ script_pc # "crashed"
      /\ Len(script_out) = script_read + 1
      /\ \A k \in 1..script_read :
           LET line == script_in[k]
               rep == script_out[k + 1] IN
           /\ k + 1 <= Len(script_out) => rep.id = line.id
           /\ k + 1 <= Len(script_out) /\ line.name = "quit" =>
                rep.ok /\ script_pc = "exited" /\ k = script_read
           /\ k + 1 <= Len(script_out) /\ line.name = "other" =>
                ~rep.ok /\ rep.note = "No such command"
=============================================================================
